---- MODULE Spec2Model ----
(***************************************************************************)
(* Model of same-file's Unix backend (src/src/unix.rs): the identity Key   *)
(* (dev, ino), the Handle that owns an open descriptor and caches its Key, *)
(* and the operating-system state both rest on: directory entries, file    *)
(* objects with their (dev, ino) numbers, and the process descriptor       *)
(* table.                                                                  *)
(*                                                                         *)
(* Option<T> is modelled as a set with at most one element: {} is None and *)
(* {x} is Some(x); take() leaves {} behind and unwrap() of {} panics.      *)
(***************************************************************************)
EXTENDS Integers, Sequences, FiniteSets, TLC

\* ------------------------------------------------------------ bounds
MaxPaths == 2
MaxFiles == 3
MaxIno == 1
MaxFd == 4
MaxHandles == 2
MaxFail == 1
MaxRaw == 1

Paths == 1..MaxPaths
Devs == {1, 2}
Inos == 1..MaxIno
Fds == 0..MaxFd
Slots == 1..MaxHandles

\* ------------------------------------------------------------ state
VARIABLES
    paths,    \* directory entries: path -> file object (domain: existing paths)
    files,    \* file objects ever created, by identity: <<[dev, ino], ...>>
    fdtab,    \* process descriptor table: open descriptor -> file object
    handles,  \* live Handle values: slot -> [file, is_std, key]
    origin,   \* history: slot -> file object the Handle's key was queried from
    raw,      \* raw descriptors released to the caller by into_raw_fd
    fails,    \* history: operating-system failures of metadata queries so far
    kept,     \* the Key copy the caller keeps from as_key(), with its file object
    last      \* the last call that built or destroyed a Handle, or panicked:
              \* its name, its outcome, the descriptors it closed, in order

vars == <<paths, files, fdtab, handles, origin, raw, fails, kept, last>>

\* ------------------------------------------------------------ helpers
Min(S) == CHOOSE x \in S : \A y \in S : x <= y

Without(f, S) == [x \in (DOMAIN f) \ S |-> f[x]]

With(f, k, v) == (k :> v) @@ f

SeqSet(s) == {s[i] : i \in DOMAIN s}

\* close(2) of each descriptor of `closed`, in order; closing a descriptor
\* that is not open fails with EBADF and changes nothing.
CloseAll(tab, closed) == Without(tab, SeqSet(closed))

\* A file object exists while it has a directory entry or an open descriptor;
\* only then are its (dev, ino) numbers reserved.
Exists(tab, dir, f) ==
    \/ \E p \in DOMAIN dir : dir[p] = f
    \/ \E fd \in DOMAIN tab : tab[fd] = f

FreeSlots == Slots \ DOMAIN handles

NewSlot == Min(FreeSlots)

\* Descriptors owned by something that will close them: a Handle whose flag is
\* unset, or the caller after into_raw_fd.
OwnedElsewhere(fd) ==
    \/ fd \in raw
    \/ \E s \in DOMAIN handles : ~handles[s].is_std /\ fd \in handles[s].file

Call(op, res, closed) == [op |-> op, res |-> res, closed |-> closed]

\* ------------------------------------------------------------ Key
Key(d, i) == [dev |-> d, ino |-> i]

\* #[derive(PartialEq)]: field by field.
Key_eq(a, b) == a.dev = b.dev /\ a.ino = b.ino

\* #[derive(Hash)]: each field is fed to the Hasher in declaration order.  The
\* Hasher state is the sequence of words written to it.
Key_hash(k, state) == Append(Append(state, k.dev), k.ino)

\* ------------------------------------------------------------ Handle
\* file.metadata(): fstat on the descriptor.  Fails when the descriptor is not
\* open or when the operating system reports an error (mdOk = FALSE).
metadata(tab, file, mdOk) ==
    IF file \in DOMAIN tab /\ mdOk THEN {files[tab[file]]} ELSE {}

\* from_file with a key that leaves the device number out.
from_file_ino_only(tab, file, mdOk) ==
    LET md == metadata(tab, file, mdOk) IN
    IF md = {}
    THEN [ok |-> FALSE, h |-> {}, closed |-> <<file>>]
    ELSE LET m == CHOOSE x \in md : TRUE IN
         [ok |-> TRUE,
          h |-> {[file |-> {file}, is_std |-> FALSE, key |-> Key(0, m.ino)]},
          closed |-> <<>>]

\* from_file whose error path forgets the File instead of dropping it.
from_file_leak(tab, file, mdOk) ==
    LET md == metadata(tab, file, mdOk) IN
    IF md = {}
    THEN [ok |-> FALSE, h |-> {}, closed |-> <<>>]
    ELSE LET m == CHOOSE x \in md : TRUE IN
         [ok |-> TRUE,
          h |-> {[file |-> {file}, is_std |-> FALSE, key |-> Key(m.dev, m.ino)]},
          closed |-> <<>>]

\* Handle::from_file.  On `?` the File passed by value is dropped, which closes
\* its descriptor.
from_file(tab, file, mdOk) ==
    LET md == metadata(tab, file, mdOk) IN
    IF md = {}
    THEN [ok |-> FALSE, h |-> {}, closed |-> <<file>>]
    ELSE LET m == CHOOSE x \in md : TRUE IN
         [ok |-> TRUE,
          h |-> {[file |-> {file}, is_std |-> FALSE, key |-> Key(m.dev, m.ino)]},
          closed |-> <<>>]

\* Handle::from_std.
from_std(tab, file, mdOk) ==
    LET r == from_file(tab, file, mdOk) IN
    [r EXCEPT !.h = {[x EXCEPT !.is_std = TRUE] : x \in r.h}]

\* OpenOptions::new().read(true).open(p): the lowest free descriptor, or an
\* error (ENOENT, EMFILE, or whatever the system reports: openOk = FALSE).
open(tab, p, openOk) ==
    IF p \in DOMAIN paths /\ openOk /\ Fds \ DOMAIN tab # {}
    THEN {Min(Fds \ DOMAIN tab)}
    ELSE {}

\* Equality that looks at the inode number alone.
eq_ino_only(self, other) == self.key.ino = other.key.ino

\* Equality as #[derive(PartialEq)] on Handle would give it: the flag counts.
eq_with_flag(self, other) ==
    Key_eq(self.key, other.key) /\ self.is_std = other.is_std

\* impl PartialEq for Handle.
eq(self, other) == Key_eq(self.key, other.key)

\* Hashing as #[derive(Hash)] on Handle would give it: the flag is fed too.
hash_with_flag(self, state) == Append(Key_hash(self.key, state), self.is_std)

\* impl Hash for Handle.
hash(self, state) == Key_hash(self.key, state)

\* A Drop that ignores the flag: the File is dropped, and closed, either way.
drop_ignores_flag(self) ==
    [panic |-> FALSE,
     closed |-> IF self.file = {} THEN <<>> ELSE <<CHOOSE fd \in self.file : TRUE>>]

\* impl Drop for Handle, then the drop of the fields: the panic flag and the
\* descriptors closed.  With the flag set the File is taken out and detached
\* (into_raw_fd), so the field drop finds None; with it unset the field drop
\* closes the File if it is still there.
drop(self) ==
    IF self.is_std
    THEN [panic |-> self.file = {}, closed |-> <<>>]
    ELSE [panic |-> FALSE,
          closed |-> IF self.file = {} THEN <<>> ELSE <<CHOOSE fd \in self.file : TRUE>>]

\* Handle::as_file / as_file_mut / as_raw_fd: self.file ... unwrap().
as_file(self) == self.file

as_file_mut(self) == self.file

as_raw_fd(self) == self.file

dev(self) == self.key.dev

ino(self) == self.key.ino

\* as_key that uses its Option to report nothing.
as_key_none(self) == {}

as_key(self) == {self.key}

\* ------------------------------------------------------------ Init
\* A process whose three standard streams are open on one terminal device
\* file, which also has a name.
Init ==
    /\ paths = (1 :> 1)
    /\ files = <<Key(1, 1)>>
    /\ fdtab = (0 :> 1) @@ (1 :> 1) @@ (2 :> 1)
    /\ handles = <<>>
    /\ origin = <<>>
    /\ raw = {}
    /\ fails = 0
    /\ kept = {}
    /\ last = Call("init", "ok", <<>>)

\* ------------------------------------------------------------ filesystem
Create(p, d, i) ==
    /\ p \notin DOMAIN paths
    /\ Len(files) < MaxFiles
    /\ \A f \in 1..Len(files) : Exists(fdtab, paths, f) => files[f] # Key(d, i)
    /\ files' = Append(files, Key(d, i))
    /\ paths' = With(paths, p, Len(files) + 1)
    /\ UNCHANGED <<last, fdtab, handles, origin, raw, fails, kept>>

Link(p, q) ==
    /\ p \in DOMAIN paths
    /\ q \notin DOMAIN paths
    /\ paths' = With(paths, q, paths[p])
    /\ UNCHANGED <<last, files, fdtab, handles, origin, raw, fails, kept>>

Unlink(p) ==
    /\ p \in DOMAIN paths
    /\ paths' = Without(paths, {p})
    /\ UNCHANGED <<last, files, fdtab, handles, origin, raw, fails, kept>>

Rename(p, q) ==
    /\ p \in DOMAIN paths
    /\ p # q
    /\ paths' = With(Without(paths, {p, q}), q, paths[p])
    /\ UNCHANGED <<last, files, fdtab, handles, origin, raw, fails, kept>>

\* ------------------------------------------------------------ constructors
\* The Handle a constructor returns is stored in a fresh slot.
Built(op, tab, file, r) ==
    /\ fdtab' = CloseAll(tab, r.closed)
    /\ IF r.ok
       THEN /\ handles' = With(handles, NewSlot, CHOOSE x \in r.h : TRUE)
            /\ origin' = With(origin, NewSlot, tab[file])
            /\ last' = Call(op, "ok", r.closed)
       ELSE /\ UNCHANGED <<handles, origin>>
            /\ last' = Call(op, "err", r.closed)

\* The operating system fails a metadata query on an open descriptor at most
\* MaxFail times in a run.
Query(mdOk) ==
    /\ mdOk \/ fails < MaxFail
    /\ fails' = IF mdOk THEN fails ELSE fails + 1

FromPath(p, openOk, mdOk) ==
    /\ FreeSlots # {}
    /\ LET o == open(fdtab, p, openOk) IN
       IF o = {}
       THEN /\ last' = Call("from_path", "err", <<>>)
            /\ UNCHANGED <<fdtab, handles, origin, fails>>
       ELSE LET file == CHOOSE fd \in o : TRUE
                tab == With(fdtab, file, paths[p])
            IN /\ Query(mdOk)
               /\ Built("from_path", tab, file, from_file(tab, file, mdOk))
    /\ UNCHANGED <<paths, files, raw, kept>>

\* The caller wraps a descriptor it owns (one it got from into_raw_fd) in a
\* File and hands it to from_file.
FromFile(file, mdOk) ==
    /\ FreeSlots # {}
    /\ file \in raw
    /\ raw' = raw \ {file}
    /\ Query(mdOk)
    /\ Built("from_file", fdtab, file, from_file(fdtab, file, mdOk))
    /\ UNCHANGED <<paths, files, kept>>

\* File::from_raw_fd(n) is unsafe: the caller guarantees that nothing else
\* owns descriptor n.
Std(op, n, mdOk) ==
    /\ FreeSlots # {}
    /\ ~OwnedElsewhere(n)
    /\ Query(mdOk)
    /\ Built(op, fdtab, n, from_std(fdtab, n, mdOk))
    /\ UNCHANGED <<paths, files, raw, kept>>

Stdin(mdOk) == Std("stdin", 0, mdOk)

Stdout(mdOk) == Std("stdout", 1, mdOk)

Stderr(mdOk) == Std("stderr", 2, mdOk)

\* ------------------------------------------------------------ teardown
Drop(s) ==
    /\ s \in DOMAIN handles
    /\ LET d == drop(handles[s]) IN
       /\ fdtab' = CloseAll(fdtab, d.closed)
       /\ last' = Call("drop", IF d.panic THEN "panic" ELSE "ok", d.closed)
    /\ handles' = Without(handles, {s})
    /\ origin' = Without(origin, {s})
    /\ UNCHANGED <<paths, files, raw, fails, kept>>

\* into_raw_fd that reads the descriptor number without taking the File out of
\* the Handle: the Handle still owns it when it goes out of scope.
IntoRawFd_no_take(s) ==
    /\ s \in DOMAIN handles
    /\ handles[s].is_std \/ Cardinality(raw) < MaxRaw
    /\ LET self == handles[s]
           d == drop(self)
       IN /\ fdtab' = CloseAll(fdtab, d.closed)
          /\ last' = Call("into_raw_fd", "ok", d.closed)
          /\ raw' = raw \cup self.file
    /\ handles' = Without(handles, {s})
    /\ origin' = Without(origin, {s})
    /\ UNCHANGED <<paths, files, fails, kept>>

\* impl IntoRawFd for ::Handle: the File is taken out of the Handle and
\* detached; `self` then goes out of scope, which runs Drop on a Handle whose
\* file is None.  A panic there unwinds and the descriptor is not returned.
\* The caller holds at most MaxRaw released descriptors at a time.
IntoRawFd(s) ==
    /\ s \in DOMAIN handles
    /\ handles[s].is_std \/ Cardinality(raw) < MaxRaw
    /\ LET self == handles[s]
           taken == self.file
           d == drop([self EXCEPT !.file = {}])
       IN /\ fdtab' = CloseAll(fdtab, d.closed)
          /\ IF taken = {} \/ d.panic
             THEN /\ last' = Call("into_raw_fd", "panic", d.closed)
                  /\ UNCHANGED raw
             ELSE /\ last' = Call("into_raw_fd", "ok", d.closed)
                  /\ raw' = raw \cup taken
    /\ handles' = Without(handles, {s})
    /\ origin' = Without(origin, {s})
    /\ UNCHANGED <<paths, files, fails, kept>>

\* ------------------------------------------------------------ accessors
\* An accessor borrows the Handle and changes nothing; unwrap() of None panics.
Access(op, s, ret) ==
    /\ s \in DOMAIN handles
    /\ last' = IF ret = {} THEN Call(op, "panic", <<>>) ELSE last
    /\ UNCHANGED <<paths, files, fdtab, handles, origin, raw, fails, kept>>

AsFile(s) == s \in DOMAIN handles /\ Access("as_file", s, as_file(handles[s]))

AsFileMut(s) == s \in DOMAIN handles /\ Access("as_file_mut", s, as_file_mut(handles[s]))

AsRawFd(s) == s \in DOMAIN handles /\ Access("as_raw_fd", s, as_raw_fd(handles[s]))

GetDev(s) == s \in DOMAIN handles /\ Access("dev", s, {dev(handles[s])})

GetIno(s) == s \in DOMAIN handles /\ Access("ino", s, {ino(handles[s])})

AsKey(s) ==
    /\ s \in DOMAIN handles
    /\ UNCHANGED last
    /\ kept' = {[key |-> k, obj |-> origin[s]] : k \in as_key(handles[s])}
    /\ UNCHANGED <<paths, files, fdtab, handles, origin, raw, fails>>

Eq(s, t) ==
    /\ s \in DOMAIN handles
    /\ t \in DOMAIN handles
    /\ Access("eq", s, {eq(handles[s], handles[t])})

Hash(s) == s \in DOMAIN handles /\ Access("hash", s, {hash(handles[s], <<>>)})

\* ------------------------------------------------------------ specification
Next ==
    \/ \E p \in Paths, d \in Devs, i \in Inos : Create(p, d, i)
    \/ \E p \in Paths, q \in Paths : Link(p, q)
    \/ \E p \in Paths : Unlink(p)
    \/ \E p \in Paths, q \in Paths : Rename(p, q)
    \/ \E p \in Paths, openOk \in BOOLEAN, mdOk \in BOOLEAN : FromPath(p, openOk, mdOk)
    \/ \E fd \in Fds, mdOk \in BOOLEAN : FromFile(fd, mdOk)
    \/ \E mdOk \in BOOLEAN : Stdin(mdOk)
    \/ \E mdOk \in BOOLEAN : Stdout(mdOk)
    \/ \E mdOk \in BOOLEAN : Stderr(mdOk)
    \/ \E s \in Slots : Drop(s)
    \/ \E s \in Slots : IntoRawFd(s)
    \/ \E s \in Slots : AsFile(s)
    \/ \E s \in Slots : AsFileMut(s)
    \/ \E s \in Slots : AsRawFd(s)
    \/ \E s \in Slots : GetDev(s)
    \/ \E s \in Slots : GetIno(s)
    \/ \E s \in Slots : AsKey(s)
    \/ \E s \in Slots, t \in Slots : Eq(s, t)
    \/ \E s \in Slots : Hash(s)

Spec == Init /\ [][Next]_vars

\* ------------------------------------------------------------ Handle values
\* Every value a Handle can have while it is usable: any open descriptor, either
\* flag, any key.
HandleValues ==
    [file : {{fd} : fd \in Fds}, is_std : BOOLEAN, key : [dev : Devs, ino : Inos]]

\* Hasher states a Handle may be hashed into.
HasherStates == {<<>>, <<1>>}

\* The callers of eq and hash, on arbitrary Handle values.
InitValues ==
    /\ paths = (1 :> 1)
    /\ files = <<Key(1, 1)>>
    /\ fdtab = (0 :> 1) @@ (1 :> 1) @@ (2 :> 1)
    /\ handles \in [Slots -> HandleValues]
    /\ origin = [s \in Slots |-> 1]
    /\ raw = {}
    /\ fails = 0
    /\ kept = {}
    /\ last = Call("init", "ok", <<>>)

NextValues ==
    \/ \E s \in Slots, t \in Slots : Eq(s, t)
    \/ \E s \in Slots : Hash(s)
    \/ \E s \in Slots : GetDev(s)
    \/ \E s \in Slots : GetIno(s)

SpecValues == InitValues /\ [][NextValues]_vars

\* ------------------------------------------------------------ claims
Live == DOMAIN handles

\* Every Key captured so far that someone still holds, with the file object it
\* was captured from: the keys of the live Handles and the caller's copy.
Captured ==
    kept \cup {[key |-> handles[s].key, obj |-> origin[s]] : s \in Live}

\* The Handles that leave in a step: destroyed by Drop or at the end of
\* into_raw_fd.
Leaving == DOMAIN handles \ DOMAIN handles'

\* C1: two live Handles built by from_path or from_file are equal if and only
\* if the paths they were opened through named the same file object.
C1_EqualIffSameFile ==
    \A s \in Live, t \in Live :
        (~handles[s].is_std /\ ~handles[t].is_std)
            => (eq(handles[s], handles[t]) <=> origin[s] = origin[t])

\* C1 witness: two hardlinks of one file, opened independently, give two equal
\* Handles that hold distinct descriptors.
C1_Witness ==
    \E s \in Live, t \in Live :
        /\ s # t
        /\ ~handles[s].is_std /\ ~handles[t].is_std
        /\ origin[s] = origin[t]
        /\ handles[s].file # handles[t].file
        /\ eq(handles[s], handles[t])
        /\ \E p \in DOMAIN paths, q \in DOMAIN paths :
               p # q /\ paths[p] = origin[s] /\ paths[q] = origin[s]

\* C2: Handle equality is decided by the key alone, whatever the descriptors
\* and the flags: eq holds exactly when dev() and ino() agree, and it is
\* reflexive, symmetric and transitive.
C2_EqIsKeyEq ==
    \A s \in Live, t \in Live :
        /\ eq(handles[s], handles[t])
               <=> (dev(handles[s]) = dev(handles[t]) /\ ino(handles[s]) = ino(handles[t]))
        /\ eq(handles[s], handles[s])
        /\ eq(handles[s], handles[t]) => eq(handles[t], handles[s])
        /\ \A c \in HandleValues :
               (eq(handles[s], handles[t]) /\ eq(handles[t], c)) => eq(handles[s], c)

\* C2 witness: a standard-stream Handle and an ordinary Handle with different
\* descriptors and the same key are equal.
C2_Witness ==
    \E s \in Live, t \in Live :
        /\ handles[s].is_std /\ ~handles[t].is_std
        /\ handles[s].file # handles[t].file
        /\ dev(handles[s]) = dev(handles[t]) /\ ino(handles[s]) = ino(handles[t])
        /\ eq(handles[s], handles[t])

\* C3: equal Handles hash equally, and a Handle hashes exactly as its Key
\* does, into any Hasher state.
C3_HashAgrees ==
    \A s \in Live, st \in HasherStates :
        /\ \A t \in Live :
               eq(handles[s], handles[t]) => hash(handles[s], st) = hash(handles[t], st)
        /\ \A k \in as_key(handles[s]) : hash(handles[s], st) = Key_hash(k, st)
        /\ as_key(handles[s]) # {}

\* C3 witness: two equal Handles that differ in flag and descriptor, with one
\* hash.
C3_Witness ==
    \E s \in Live, t \in Live :
        /\ handles[s].is_std # handles[t].is_std
        /\ handles[s].file # handles[t].file
        /\ eq(handles[s], handles[t])
        /\ hash(handles[s], <<>>) = hash(handles[t], <<>>)

\* C4 as stated: the teardown of a Handle whose flag is unset closes its
\* descriptor exactly once, and the teardown of a Handle whose flag is set
\* closes nothing.
C4_Original ==
    [][\A s \in Leaving :
           IF handles[s].is_std
           THEN last'.closed = <<>> /\ fdtab' = fdtab
           ELSE /\ Len(last'.closed) = 1
                /\ handles[s].file = {last'.closed[1]}
                /\ DOMAIN fdtab' = DOMAIN fdtab \ handles[s].file]_vars

\* C4 amended: the teardown of a Handle whose flag is unset closes its
\* descriptor exactly once when the File is still in the Handle, and closes
\* nothing when into_raw_fd has taken it (the descriptor is then the caller's);
\* the teardown of a Handle whose flag is set closes nothing.
C4_Teardown ==
    [][\A s \in Leaving :
           IF handles[s].is_std
           THEN last'.closed = <<>> /\ fdtab' = fdtab
           ELSE IF last'.op = "into_raw_fd"
           THEN last'.closed = <<>> /\ fdtab' = fdtab /\ handles[s].file \subseteq raw'
           ELSE /\ Len(last'.closed) = 1
                /\ handles[s].file = {last'.closed[1]}
                /\ DOMAIN fdtab' = DOMAIN fdtab \ handles[s].file]_vars

\* C4 witness: a Handle whose flag is unset has been dropped and its
\* descriptor closed, with the standard descriptors untouched.
C4_Witness ==
    /\ last.op = "drop"
    /\ Len(last.closed) = 1
    /\ last.closed[1] \notin DOMAIN fdtab
    /\ {0, 1, 2} \subseteq DOMAIN fdtab

\* C5: from_path is atomic.  A failed call leaves the descriptor table and the
\* Handles as they were; a successful call returns a Handle on a descriptor
\* that is newly open, with the key of the file it is open on.
C5_FromPathAtomic ==
    [][last'.op = "from_path" =>
           IF last'.res = "err"
           THEN fdtab' = fdtab /\ handles' = handles
           ELSE \A s \in DOMAIN handles' \ DOMAIN handles :
                    \E fd \in DOMAIN fdtab' \ DOMAIN fdtab :
                        /\ handles'[s].file = {fd}
                        /\ handles'[s].key = files[fdtab'[fd]]
                        /\ DOMAIN fdtab' = DOMAIN fdtab \cup {fd}]_vars

\* C5 witness: from_path has failed after its open succeeded, and closed the
\* descriptor it had opened.
C5_Witness ==
    /\ last.op = "from_path"
    /\ last.res = "err"
    /\ Len(last.closed) = 1
    /\ last.closed[1] \notin DOMAIN fdtab

\* C6 as stated: two captured Keys are equal if and only if they were captured
\* from the same file object.
C6_Original ==
    \A a \in Captured, b \in Captured : Key_eq(a.key, b.key) <=> a.obj = b.obj

\* C6 amended: Keys captured from the same file object are equal, and equal
\* Keys were captured from the same file object provided both file objects
\* still exist (each has a directory entry or an open descriptor).
C6_ExistingFiles ==
    \A a \in Captured, b \in Captured :
        /\ a.obj = b.obj => Key_eq(a.key, b.key)
        /\ (Exists(fdtab, paths, a.obj) /\ Exists(fdtab, paths, b.obj) /\ Key_eq(a.key, b.key))
               => a.obj = b.obj

\* C6 witness: the caller's Key copy has outlived its Handle, its file still
\* exists, and it differs from the key of a live Handle on another file.
C6_Witness ==
    \E a \in kept, s \in Live :
        /\ \A t \in Live : origin[t] # a.obj
        /\ Exists(fdtab, paths, a.obj)
        /\ origin[s] # a.obj
        /\ ~Key_eq(a.key, handles[s].key)

\* C7: dev(), ino() and as_key() of a live Handle return the numbers of the
\* file object it was built on, whatever happened to the path since, and
\* as_key() is present.
C7_KeyIsSnapshot ==
    \A s \in Live :
        /\ dev(handles[s]) = files[origin[s]].dev
        /\ ino(handles[s]) = files[origin[s]].ino
        /\ as_key(handles[s]) = {files[origin[s]]}

\* C7 witness: the file a live Handle was opened on has lost all its names,
\* and another file exists under a name.
C7_Witness ==
    \E s \in Live :
        /\ ~handles[s].is_std
        /\ \A p \in DOMAIN paths : paths[p] # origin[s]
        /\ DOMAIN paths # {}

\* C8: every live Handle built by from_path or from_file holds a descriptor
\* that is open on the file it was built on, that no other such Handle holds,
\* and that the caller does not hold.
C8_ExclusiveDescriptor ==
    \A s \in Live :
        ~handles[s].is_std =>
            /\ \E fd \in DOMAIN fdtab : handles[s].file = {fd} /\ fdtab[fd] = origin[s]
            /\ handles[s].file \cap raw = {}
            /\ \A t \in Live \ {s} :
                   ~handles[t].is_std => handles[s].file \cap handles[t].file = {}

\* C8 witness: a Handle has been dropped and its descriptor closed while
\* another Handle built by from_path is still there with its descriptor open.
C8_Witness ==
    /\ last.op = "drop"
    /\ last.closed # <<>>
    /\ \E s \in Live : ~handles[s].is_std /\ handles[s].file \subseteq DOMAIN fdtab

\* C9: no unwrap of the file reference panics, in an accessor, in into_raw_fd
\* or in Drop.
C9_NoPanic == last.res # "panic"

\* C10: descriptors 0, 1 and 2 stay open.
C10_StdStaysOpen == {0, 1, 2} \subseteq DOMAIN fdtab

====
